---- MODULE Spec2Model ----
(***************************************************************************)
(* A model of the Stargazer table object of                                *)
(* src/estimagic_stargazer/stargazer_function.py: the data it extracts at  *)
(* construction, its rendering options and their setters, and the two      *)
(* renderers.                                                              *)
(*                                                                         *)
(* Encoding of Python values:                                              *)
(*   - p-values and significance levels are integers in units of 0.005     *)
(*     (0.01 is 2, 0.05 is 10, 0.1 is 20, 1 is 200);                       *)
(*   - numpy.nan is the integer NaN, outside every range used;             *)
(*   - a string of n stars ("*" * n) is stored as the number n, the        *)
(*     renderers write it out with StarStr;                                *)
(*   - None is the string "None"; an argument that is not of the type a    *)
(*     setter asks for is one of the stand-ins NonStr, NonFloat, NonInt;   *)
(*   - a covariate key is a tuple of integers, of length 1 for a flat      *)
(*     index and longer for a hierarchical one; integers order as the      *)
(*     names they stand for.                                               *)
(***************************************************************************)
EXTENDS Integers, Sequences, FiniteSets, TLC

VARIABLES self, ret

vars == <<self, ret>>

(***************************************************************************)
(* Bounds of the model.                                                    *)
(***************************************************************************)
MaxModels == 2
MaxLevels == 3
MaxOrder == 2

(***************************************************************************)
(* Python values.                                                          *)
(***************************************************************************)
None == "None"
NaN == 0 - 99999
NonStr == "<int 5>"
NonFloat == 77777
NonInt == 88888

isnan(x) == x = NaN

Range(s) == {s[i] : i \in 1..Len(s)}

SeqsUpTo(S, n) == UNION {[1..k -> S] : k \in 0..n}

RECURSIVE SumSeq(_)
SumSeq(s) == IF s = <<>> THEN 0 ELSE Head(s) + SumSeq(Tail(s))

\* list.sort / sorted on numbers: insertion into an ascending list
RECURSIVE Insert(_, _)
Insert(x, s) ==
    IF s = <<>> THEN <<x>>
    ELSE IF x <= Head(s) THEN <<x>> \o s
    ELSE <<Head(s)>> \o Insert(x, Tail(s))

RECURSIVE sorted(_)
sorted(s) == IF s = <<>> THEN <<>> ELSE Insert(Head(s), sorted(Tail(s)))

Reverse(s) == [i \in 1..Len(s) |-> s[Len(s) + 1 - i]]

sorted_reverse(s) == Reverse(sorted(s))

(***************************************************************************)
(* Significance stars: pandas.cut for the coefficients, numpy.digitize     *)
(* for the F-statistic.                                                    *)
(***************************************************************************)
BinLow == 0 - 200
BinHigh == 400

sig_bins(levels) == <<BinLow>> \o sorted(levels) \o <<BinHigh>>

\* pandas.cut raises ValueError unless the bin edges increase and are unique
cut_raises(bins) == \E i \in 1..(Len(bins) - 1) : bins[i] >= bins[i + 1]

\* labels[i] of line 217-220, for the 0-based bin i: "*" * (len(levels) - i)
sig_labels(levels) == [i \in 1..(Len(levels) + 1) |-> Len(levels) - (i - 1)]

\* cut with left-closed intervals [bins[i], bins[i+1]), as right=False gives
cut_left_closed(x, bins, labels) ==
    IF \E i \in 1..(Len(bins) - 1) : bins[i] <= x /\ x < bins[i + 1]
    THEN labels[CHOOSE i \in 1..(Len(bins) - 1) : bins[i] <= x /\ x < bins[i + 1]]
    ELSE NaN

\* pandas.cut(x, bins, labels) with right-closed intervals (bins[i], bins[i+1]]
cut(x, bins, labels) ==
    IF \E i \in 1..(Len(bins) - 1) : bins[i] < x /\ x <= bins[i + 1]
    THEN labels[CHOOSE i \in 1..(Len(bins) - 1) : bins[i] < x /\ x <= bins[i + 1]]
    ELSE NaN

\* numpy.digitize(x, bins) for increasing bins, right=False:
\* the i with bins[i-1] <= x < bins[i]; nan sorts after every edge
digitize(x, bins) ==
    IF isnan(x) THEN Len(bins)
    ELSE Cardinality({i \in 1..Len(bins) : bins[i] <= x})

\* "*" * n for any integer n is the empty string when n <= 0
StarCount(n) == IF n < 0 THEN 0 ELSE n

sig_icons_of(p_values, levels) ==
    [k \in DOMAIN p_values |-> cut(p_values[k], sig_bins(levels), sig_labels(levels))]

sig_icon_fstat_of(f_p_value, levels) ==
    IF isnan(f_p_value) THEN 0
    ELSE StarCount(Len(levels) - digitize(f_p_value, sig_bins(levels)) + 1)

(***************************************************************************)
(* Covariate keys and the models given to the constructor.                 *)
(***************************************************************************)
FlatKeys == {<<1>>, <<2>>}
HierKeys == {<<1, 1>>, <<1, 2>>, <<2, 1>>}

\* the names the integers of a key stand for, in their sort order
SegName(n) == <<"a", "b", "c">>[n]

\* Python's comparison of tuples (and of flat names, tuples of length 1)
RECURSIVE KeyLess(_, _)
KeyLess(a, b) ==
    IF a = <<>> THEN b # <<>>
    ELSE IF b = <<>> THEN FALSE
    ELSE IF Head(a) # Head(b) THEN Head(a) < Head(b)
    ELSE KeyLess(Tail(a), Tail(b))

\* sorted(set(...)) on keys
RECURSIVE sorted_set(_)
sorted_set(S) ==
    IF S = {} THEN <<>>
    ELSE LET m == CHOOSE x \in S : \A y \in S \ {x} : KeyLess(x, y)
         IN <<m>> \o sorted_set(S \ {m})

NoDup(s) == \A i, j \in 1..Len(s) : i # j => s[i] # s[j]

\* info.get(key, np.nan): a key the info lacks is NaN here; fp is the F
\* p-value, rest the value of every other scalar (n_obs is left to be derived)
InfoOf(fp, rest) ==
    [rsquared |-> rest, rsquared_adj |-> rest, scale |-> rest, fvalue |-> rest,
     f_pvalue |-> fp, df_model |-> rest, df_resid |-> rest, n_obs |-> NaN]

\* an info with every scalar, the degrees of freedom apart from each other
FullInfo ==
    [rsquared |-> 4, rsquared_adj |-> 4, scale |-> 4, fvalue |-> 4,
     f_pvalue |-> 10, df_model |-> 2, df_resid |-> 7, n_obs |-> NaN]

InfoScalars ==
    {"rsquared", "rsquared_adj", "scale", "fvalue", "f_pvalue", "df_model", "df_resid"}

\* the info without the keys of missing
Lacking(info, missing) ==
    [key \in DOMAIN info |-> IF key \in missing THEN NaN ELSE info[key]]

\* infos lacking nothing, one scalar, both degrees of freedom or everything,
\* and one that supplies n_obs
FooterInfos ==
    {Lacking(FullInfo, missing) :
        missing \in {{}, {"df_model", "df_resid"}, InfoScalars}
                    \cup {{key} : key \in InfoScalars}}
    \cup {[FullInfo EXCEPT !.n_obs = 50]}

\* a model as validate_input leaves it: params (index, pvalue column) and info
ModelsOver(keys, pvals, infos) ==
    {[index |-> ix, pvalue |-> pv, info |-> info] :
        ix \in {s \in SeqsUpTo(keys, Cardinality(keys)) : s # <<>> /\ NoDup(s)},
        pv \in [keys -> pvals],
        info \in infos}

(***************************************************************************)
(* Construction: reset_params, then extract_data.                          *)
(***************************************************************************)
DefaultSigLevels == <<20, 10, 6, 2>>
DefaultSigDigits == 3

NoColumns == [kind |-> "None", str |-> "", list |-> <<>>]
StrColumns(s) == [kind |-> "str", str |-> s, list |-> <<>>]
ListColumns(l) == [kind |-> "list", str |-> "", list |-> l]

\* the attributes reset_params assigns; an optional list is <<>> for None
\* and <<l>> for the list l
DefaultParams ==
    [title_text |-> None,
     show_header |-> TRUE,
     model_name |-> None,
     column_labels |-> NoColumns,
     column_separators |-> <<>>,
     show_model_nums |-> TRUE,
     original_param_names |-> <<>>,
     param_nicer_names |-> <<>>,
     show_precision |-> TRUE,
     show_sig |-> TRUE,
     sig_levels |-> DefaultSigLevels,
     sig_digits |-> DefaultSigDigits,
     confidence_intervals |-> FALSE,
     show_footer |-> TRUE,
     custom_footer_text |-> <<>>,
     show_n |-> TRUE,
     show_r2 |-> TRUE,
     show_adj_r2 |-> TRUE,
     show_residual_std_err |-> FALSE,
     show_f_statistic |-> TRUE,
     show_dof |-> FALSE,
     show_notes |-> TRUE,
     notes_label |-> "Note:",
     notes_append |-> TRUE,
     custom_notes |-> <<>>]

reset_params(s) == DefaultParams @@ s

\* np.nan + x is nan
nan_add(x, y) == IF isnan(x) \/ isnan(y) THEN NaN ELSE x + y

\* np.sqrt on the scales the model uses
np_sqrt(x) == IF isnan(x) THEN NaN ELSE CHOOSE r \in 0..x : r * r = x

extract_model_data(model, levels) ==
    [param_names |-> model.index,
     p_values |-> [k \in Range(model.index) |-> model.pvalue[k]],
     r2 |-> model.info.rsquared,
     r2_adj |-> model.info.rsquared_adj,
     resid_std_err |-> np_sqrt(model.info.scale),
     f_statistic |-> model.info.fvalue,
     f_p_value |-> model.info.f_pvalue,
     degree_freedom |-> model.info.df_model,
     degree_freedom_resid |-> model.info.df_resid,
     n_obs |-> IF isnan(model.info.n_obs)
               THEN nan_add(nan_add(model.info.df_model, model.info.df_resid), 1)
               ELSE model.info.n_obs,
     sig_icons |-> sig_icons_of([k \in Range(model.index) |-> model.pvalue[k]], levels),
     sig_icon_fstat |-> sig_icon_fstat_of(model.info.f_pvalue, levels)]

\* lines 163-191: per index level, a value equal to the one of the row above
\* is replaced by the empty string
first_table_col_of(param_names, nlevels) ==
    [p \in Range(param_names) |->
        LET j == CHOOSE j \in 1..Len(param_names) : param_names[j] = p
        IN [i \in 1..nlevels |->
               IF j > 1 /\ param_names[j][i] = param_names[j - 1][i]
               THEN ""
               ELSE SegName(p[i])]]

\* extract_data collecting the keys of the first model alone
extract_data_first_model(s, models) ==
    LET model_data == [i \in 1..Len(models) |-> extract_model_data(models[i], s.sig_levels)]
        param_names == sorted_set(Range(model_data[1].param_names))
        nlevels == Len(models[1].index[1])
    IN [model_data |-> model_data,
        param_names |-> param_names,
        first_table_col |-> first_table_col_of(param_names, nlevels),
        nlevels |-> nlevels] @@ s

extract_data(s, models) ==
    LET model_data == [i \in 1..Len(models) |-> extract_model_data(models[i], s.sig_levels)]
        pars == UNION {Range(model_data[i].param_names) : i \in 1..Len(models)}
        param_names == sorted_set(pars)
        nlevels == Len(models[1].index[1])
    IN [model_data |-> model_data,
        param_names |-> param_names,
        first_table_col |-> first_table_col_of(param_names, nlevels),
        nlevels |-> nlevels] @@ s

\* Stargazer.__init__
Construct(models) ==
    extract_data(reset_params([models |-> models, num_models |-> Len(models)]), models)

(***************************************************************************)
(* The setters.  Each is an operator from the instance and the arguments   *)
(* to the instance after the call and whether the call raised.             *)
(***************************************************************************)
Returned(s) == [self |-> s, raised |-> FALSE, out |-> <<>>]
Raised(s) == [self |-> s, raised |-> TRUE, out |-> <<>>]

IsStr(v) == v # NonStr

title(s, t) == Returned([s EXCEPT !.title_text = t])

\* lines 121, 233-235: sg.show_header is looked up in the instance first, where
\* reset_params has put a bool, and calling that raises TypeError; the method,
\* reached only without the attribute, assigns header
show_header(s, show) ==
    IF "show_header" \in DOMAIN s THEN Raised(s)
    ELSE Returned([header |-> show] @@ s)

\* lines 122, 295-297: the same for model_name, None since reset_params
model_name(s, name) ==
    IF "model_name" \in DOMAIN s THEN Raised(s)
    ELSE IF ~IsStr(name) THEN Raised(s)
    ELSE Returned([model_name |-> name] @@ s)

\* lines 286-289: the type is tested, then only the upper limit
significant_digits(s, digits) ==
    IF digits = NonInt THEN Raised(s)
    ELSE IF ~(digits < 10) THEN Raised(s)
    ELSE Returned([s EXCEPT !.sig_digits = digits])

\* lines 318-320, for the arguments of type bool
show_degrees_of_freedom(s, show) == Returned([s EXCEPT !.show_dof = show])

\* lines 268-284: sig_levels is assigned, then pandas.cut runs per model
redefine_stars(s) ==
    IF cut_raises(sig_bins(s.sig_levels))
    THEN Raised(s)
    ELSE Returned([s EXCEPT !.model_data =
            [i \in DOMAIN s.model_data |->
                [s.model_data[i] EXCEPT
                    !.sig_icons = sig_icons_of(s.model_data[i].p_values, s.sig_levels),
                    !.sig_icon_fstat =
                        sig_icon_fstat_of(s.model_data[i].f_p_value, s.sig_levels)]]])

significance_levels(s, levels) ==
    IF \E i \in 1..Len(levels) : levels[i] = NonFloat
    THEN Raised(s)
    ELSE redefine_stars([s EXCEPT !.sig_levels = sorted_reverse(levels)])

\* custom_columns without the check of the separators' sum
custom_columns_no_sum(s, labels, separators) ==
    IF separators # <<>>
    THEN LET seps == separators[1]
         IN IF labels.kind # "list" THEN Raised(s)
            ELSE IF Len(labels.list) # Len(seps) THEN Raised(s)
            ELSE IF \E i \in 1..Len(seps) : seps[i] = NonInt THEN Raised(s)
            ELSE Returned([s EXCEPT !.column_labels = labels,
                                    !.column_separators = separators])
    ELSE IF labels.kind # "str" THEN Raised(s)
         ELSE Returned([s EXCEPT !.column_labels = labels,
                                 !.column_separators = separators])

custom_columns(s, labels, separators) ==
    IF separators # <<>>
    THEN LET seps == separators[1]
         IN IF labels.kind # "list" THEN Raised(s)
            ELSE IF Len(labels.list) # Len(seps) THEN Raised(s)
            ELSE IF \E i \in 1..Len(seps) : seps[i] = NonInt THEN Raised(s)
            ELSE IF SumSeq(seps) # s.num_models THEN Raised(s)
            ELSE Returned([s EXCEPT !.column_labels = labels,
                                    !.column_separators = separators])
    ELSE IF labels.kind # "str" THEN Raised(s)
         ELSE Returned([s EXCEPT !.column_labels = labels,
                                 !.column_separators = separators])

covariate_order(s, param_names) ==
    LET missing == Range(param_names) \ Range(s.param_names)
    IN IF missing # {} THEN Raised(s)
       ELSE Returned([s EXCEPT !.original_param_names = <<s.param_names>>,
                               !.param_names = param_names])

reset_covariate_order(s) ==
    IF s.original_param_names # <<>>
    THEN Returned([s EXCEPT !.param_names = s.original_param_names[1]])
    ELSE Returned(s)

(***************************************************************************)
(* The renderers.  The text a renderer returns is kept as the sequence of  *)
(* its rows, each row with the cells the code writes into it; a number the *)
(* code rounds is written round(x, digits).                                *)
(***************************************************************************)
Row(kind, cells) == [row |-> kind, cells |-> cells]

RECURSIVE Flatten(_)
Flatten(ss) == IF ss = <<>> THEN <<>> ELSE Head(ss) \o Flatten(Tail(ss))

RECURSIVE StarStr(_)
StarStr(n) == IF n <= 0 THEN "" ELSE "*" \o StarStr(n - 1)

\* str(label) of a pandas.cut label: nan outside the bins
IconStr(icon) == IF isnan(icon) THEN "nan" ELSE StarStr(icon)

np_round(x, digits) == "round(" \o x \o ", " \o ToString(digits) \o ")"

ncols(s) == s.nlevels

param_print_name(s, param_name) == SegName(param_name[Len(param_name)])

\* a string concatenation with something that is not a string raises TypeError
header_raises(s) ==
    \/ s.title_text # None /\ ~IsStr(s.title_text)
    \/ s.model_name # None /\ ~IsStr(s.model_name)

generate_header_html(s) ==
    IF ~s.show_header THEN <<>>
    ELSE (IF s.title_text # None THEN <<Row("title", <<s.title_text>>)>> ELSE <<>>)
      \o <<Row("rule", <<ToString(s.num_models + ncols(s))>>)>>
      \o (IF s.model_name # None THEN <<Row("model_name", <<s.model_name>>)>> ELSE <<>>)
      \o (IF s.column_labels.kind = "str"
          THEN <<Row("column_labels", <<s.column_labels.str>>)>>
          ELSE IF s.column_labels.kind = "list"
          THEN <<Row("column_labels",
                     [i \in 1..Len(s.column_labels.list) |->
                         ToString(s.column_separators[1][i]) \o ":"
                             \o s.column_labels.list[i]])>>
          ELSE <<>>)
      \o (IF s.show_model_nums
          THEN <<Row("model_nums", [i \in 1..s.num_models |-> "(" \o ToString(i) \o ")"])>>
          ELSE <<>>)
      \o <<Row("rule", <<ToString(s.num_models + (IF ncols(s) > 1 THEN ncols(s) ELSE 0) + 1)>>)>>

name_cells(s, param_name) ==
    [i \in 1..Len(param_name) |->
        IF i < Len(param_name)
        THEN s.first_table_col[param_name][i]
        ELSE param_print_name(s, param_name)]

has_param(md, param_name) == param_name \in Range(md.param_names)

generate_param_main_html(s, param_name) ==
    Row("param_main",
        name_cells(s, param_name)
        \o [m \in 1..Len(s.model_data) |->
               IF has_param(s.model_data[m], param_name)
               THEN np_round("value" \o ToString(m) \o ToString(param_name), s.sig_digits)
                    \o (IF s.show_sig
                        THEN "<sup>" \o IconStr(s.model_data[m].sig_icons[param_name])
                             \o "</sup>"
                        ELSE "")
               ELSE ""])

precision_cell(s, m, param_name) ==
    IF s.confidence_intervals
    THEN "(" \o np_round("ci_lower" \o ToString(m) \o ToString(param_name), s.sig_digits)
         \o " , "
         \o np_round("ci_upper" \o ToString(m) \o ToString(param_name), s.sig_digits)
         \o ")"
    ELSE "(" \o np_round("standard_error" \o ToString(m) \o ToString(param_name),
                         s.sig_digits) \o ")"

generate_param_precision_html(s, param_name) ==
    Row("param_precision",
        [i \in 1..Len(param_name) |-> ""]
        \o [m \in 1..Len(s.model_data) |->
               IF has_param(s.model_data[m], param_name)
               THEN precision_cell(s, m, param_name)
               ELSE ""])

generate_param_rows_html(s, param_name) ==
    <<generate_param_main_html(s, param_name)>>
    \o (IF s.show_precision
        THEN <<generate_param_precision_html(s, param_name)>>
        ELSE <<Row("empty", <<>>)>>)

generate_body_html(s) ==
    Flatten([j \in 1..Len(s.param_names) |-> generate_param_rows_html(s, s.param_names[j])])

\* scalar_cell without the test for NaN
scalar_cell_printing_nan(x, digits) == np_round(ToString(x), digits)

scalar_cell(x, digits) == IF isnan(x) THEN " " ELSE np_round(ToString(x), digits)

generate_observations_html(s) ==
    IF ~s.show_n THEN <<>>
    ELSE <<Row("observations",
               [m \in 1..Len(s.model_data) |->
                   IF isnan(s.model_data[m].n_obs) THEN " "
                   ELSE ToString(s.model_data[m].n_obs)])>>

generate_r2_html(s) ==
    IF ~s.show_r2 THEN <<>>
    ELSE <<Row("r2", [m \in 1..Len(s.model_data) |->
                         scalar_cell(s.model_data[m].r2, s.sig_digits)])>>

generate_r2_adj_html(s) ==
    IF ~s.show_r2 THEN <<>>
    ELSE <<Row("r2_adj", [m \in 1..Len(s.model_data) |->
                             scalar_cell(s.model_data[m].r2_adj, s.sig_digits)])>>

resid_std_err_cell(s, md) ==
    IF isnan(md.resid_std_err) THEN " "
    ELSE np_round(ToString(md.resid_std_err), s.sig_digits)
         \o (IF s.show_dof /\ ~isnan(md.degree_freedom_resid)
             THEN "(df = " \o ToString(md.degree_freedom_resid) \o ")"
             ELSE "")

generate_resid_std_err_html(s) ==
    IF ~s.show_r2 THEN <<>>
    ELSE <<Row("resid_std_err",
               [m \in 1..Len(s.model_data) |-> resid_std_err_cell(s, s.model_data[m])])>>

\* dof_annotation with max() where the code has min()
dof_annotation_max(md) ==
    LET ind_df == isnan(md.degree_freedom)
        ind_dfr == isnan(md.degree_freedom_resid)
        ind == ind_df \/ ind_dfr
    IN IF ind THEN ""
       ELSE "(df = " \o (IF ind_df THEN "" ELSE ToString(md.degree_freedom))
            \o "; " \o (IF ind_dfr THEN "" ELSE ToString(md.degree_freedom_resid))
            \o ")"

\* lines 640-650: ind = min(ind_df, ind_dfr); the annotation is written
\* (1 - ind) times, each degree of freedom (1 - its indicator) times
dof_annotation(md) ==
    LET ind_df == isnan(md.degree_freedom)
        ind_dfr == isnan(md.degree_freedom_resid)
        ind == ind_df /\ ind_dfr
    IN IF ind THEN ""
       ELSE "(df = " \o (IF ind_df THEN "" ELSE ToString(md.degree_freedom))
            \o "; " \o (IF ind_dfr THEN "" ELSE ToString(md.degree_freedom_resid))
            \o ")"

f_statistic_cell(s, md) ==
    IF isnan(md.f_statistic) THEN ""
    ELSE np_round(ToString(md.f_statistic), s.sig_digits)
         \o "<sup>" \o StarStr(md.sig_icon_fstat) \o "</sup>"
         \o (IF s.show_dof THEN dof_annotation(md) ELSE "")

generate_f_statistic_html(s) ==
    IF ~s.show_r2 THEN <<>>
    ELSE <<Row("f_statistic",
               [m \in 1..Len(s.model_data) |-> f_statistic_cell(s, s.model_data[m])])>>

\* sig_levels[-1] of the empty list raises IndexError
p_value_section_raises(s) == Len(s.sig_levels) = 0

generate_p_value_section_html(s) ==
    LET sig_levels == sorted(s.sig_levels)
        n == Len(sig_levels)
    IN [i \in 1..n |->
           IF i < n
           THEN StarStr(n - (i - 1)) \o "p<" \o ToString(sig_levels[i])
           ELSE "*p<" \o ToString(sig_levels[n])]

generate_additional_notes_html(s) ==
    [i \in 1..Len(s.custom_notes) |-> Row("custom_note", <<s.custom_notes[i]>>)]

notes_raise(s) == s.show_notes /\ s.notes_append /\ p_value_section_raises(s)

generate_notes_html(s) ==
    IF ~s.show_notes THEN <<>>
    ELSE <<Row("notes", <<s.notes_label>>
                        \o (IF s.notes_append THEN generate_p_value_section_html(s)
                            ELSE <<>>))>>
         \o generate_additional_notes_html(s)

footer_raises(s) == s.show_footer /\ notes_raise(s)

generate_footer_html(s) ==
    <<Row("rule", <<ToString(s.num_models + ncols(s))>>)>>
    \o (IF ~s.show_footer THEN <<>>
        ELSE generate_observations_html(s)
          \o generate_r2_html(s)
          \o generate_r2_adj_html(s)
          \o (IF s.show_residual_std_err THEN generate_resid_std_err_html(s) ELSE <<>>)
          \o (IF s.show_f_statistic THEN generate_f_statistic_html(s) ELSE <<>>)
          \o <<Row("rule", <<ToString(s.num_models + ncols(s))>>)>>
          \o generate_notes_html(s)
          \o <<Row("table_end", <<>>)>>)

\* what a render call returns: the rows, or that it raised; the renderers
\* assign no attribute
Rendered(s, rows) == [self |-> s, raised |-> FALSE, out |-> rows]

\* render_html with the legend's thresholds sorted in place (list.sort)
render_html_sorting_in_place(s) ==
    IF (s.show_header /\ header_raises(s)) \/ footer_raises(s)
    THEN Raised(s)
    ELSE Rendered([s EXCEPT !.sig_levels = sorted(s.sig_levels)],
                  generate_header_html(s) \o generate_body_html(s)
                  \o generate_footer_html(s))

render_html(s) ==
    IF (s.show_header /\ header_raises(s)) \/ footer_raises(s)
    THEN Raised(s)
    ELSE Rendered(s, generate_header_html(s) \o generate_body_html(s)
                  \o generate_footer_html(s))

\* "}{l}{" + label raises TypeError for a label that is not a string
column_labels_latex_raise(s) ==
    /\ s.column_labels.kind = "list"
    /\ \E i \in 1..Len(s.column_labels.list) : ~IsStr(s.column_labels.list[i])

\* lines 715-718: show_header is looked at only inside "if not only_tabular"
header_latex_stops(s, only_tabular) == ~only_tabular /\ ~s.show_header

header_latex_raises(s, only_tabular) ==
    /\ ~header_latex_stops(s, only_tabular)
    /\ \/ ~only_tabular /\ s.title_text # None /\ ~IsStr(s.title_text)
       \/ s.model_name # None /\ ~IsStr(s.model_name)
       \/ column_labels_latex_raise(s)

generate_header_latex(s, only_tabular) ==
    (IF ~only_tabular THEN <<Row("begin_table", <<>>)>> ELSE <<>>)
    \o (IF header_latex_stops(s, only_tabular) THEN <<>>
        ELSE (IF ~only_tabular /\ s.title_text # None
              THEN <<Row("title", <<s.title_text>>)>> ELSE <<>>)
          \o (IF ~only_tabular THEN <<Row("label", <<>>)>> ELSE <<>>)
          \o <<Row("begin_tabularx", <<ToString(ncols(s)), ToString(s.num_models)>>)>>
          \o <<Row("rule", <<>>)>>
          \o (IF s.model_name # None THEN <<Row("model_name", <<s.model_name>>)>> ELSE <<>>)
          \o (IF s.column_labels.kind = "str"
              THEN <<Row("column_labels", <<s.column_labels.str>>)>>
              ELSE IF s.column_labels.kind = "list"
              THEN <<Row("column_labels",
                         [i \in 1..Len(s.column_labels.list) |->
                             ToString(s.column_separators[1][i]) \o ":"
                                 \o s.column_labels.list[i]])>>
              ELSE <<>>)
          \o (IF s.show_model_nums
              THEN <<Row("model_nums",
                         [i \in 1..s.num_models |-> "(" \o ToString(i) \o ")"])>>
              ELSE <<>>)
          \o <<Row("rule", <<>>)>>)

generate_param_main_latex(s, param_name) ==
    Row("param_main",
        name_cells(s, param_name)
        \o [m \in 1..Len(s.model_data) |->
               IF has_param(s.model_data[m], param_name)
               THEN np_round("value" \o ToString(m) \o ToString(param_name), s.sig_digits)
                    \o (IF s.show_sig
                        THEN "$^{" \o IconStr(s.model_data[m].sig_icons[param_name]) \o "}$"
                        ELSE "")
               ELSE ""])

\* generate_param_precision_latex writing no cell for a model without the covariate
generate_param_precision_latex_skipping_absent(s, param_name) ==
    Row("param_precision",
        [i \in 1..Len(param_name) |-> ""]
        \o SelectSeq([m \in 1..Len(s.model_data) |->
                          IF has_param(s.model_data[m], param_name)
                          THEN precision_cell(s, m, param_name)
                          ELSE ""],
                     LAMBDA cell : cell # ""))

generate_param_precision_latex(s, param_name) ==
    Row("param_precision",
        [i \in 1..Len(param_name) |-> ""]
        \o [m \in 1..Len(s.model_data) |->
               IF has_param(s.model_data[m], param_name)
               THEN precision_cell(s, m, param_name)
               ELSE ""])

generate_param_rows_latex(s, param_name) ==
    <<generate_param_main_latex(s, param_name)>>
    \o (IF s.show_precision
        THEN <<generate_param_precision_latex(s, param_name)>>
        ELSE <<Row("empty", <<>>)>>)

\* the line after each covariate: "  " and one "& " per model; without the
\* precision row the "& " of generate_param_rows_latex opens the same line
generate_body_latex(s) ==
    Flatten([j \in 1..Len(s.param_names) |->
                generate_param_rows_latex(s, s.param_names[j])
                \o <<Row("spacer", (IF s.show_precision THEN <<>> ELSE <<"">>)
                                   \o <<"">> \o [m \in 1..s.num_models |-> ""])>>])

generate_observations_latex(s) ==
    IF ~s.show_n THEN <<>>
    ELSE <<Row("observations",
               [m \in 1..Len(s.model_data) |->
                   IF isnan(s.model_data[m].n_obs) THEN " "
                   ELSE ToString(s.model_data[m].n_obs)])>>

\* generate_r2_latex testing show_n, the flag of the row above it
generate_r2_latex_testing_show_n(s) ==
    IF ~s.show_n THEN <<>>
    ELSE <<Row("r2", [m \in 1..Len(s.model_data) |->
                         scalar_cell(s.model_data[m].r2, s.sig_digits)])>>

generate_r2_latex(s) ==
    IF ~s.show_r2 THEN <<>>
    ELSE <<Row("r2", [m \in 1..Len(s.model_data) |->
                         scalar_cell(s.model_data[m].r2, s.sig_digits)])>>

generate_r2_adj_latex(s) ==
    IF ~s.show_r2 THEN <<>>
    ELSE <<Row("r2_adj", [m \in 1..Len(s.model_data) |->
                             scalar_cell(s.model_data[m].r2_adj, s.sig_digits)])>>

generate_resid_std_err_latex(s) ==
    IF ~s.show_r2 THEN <<>>
    ELSE <<Row("resid_std_err",
               [m \in 1..Len(s.model_data) |-> resid_std_err_cell(s, s.model_data[m])])>>

f_statistic_cell_latex(s, md) ==
    IF isnan(md.f_statistic) THEN ""
    ELSE np_round(ToString(md.f_statistic), s.sig_digits)
         \o "$^{" \o StarStr(md.sig_icon_fstat) \o "}$"
         \o (IF s.show_dof THEN dof_annotation(md) ELSE "")

generate_f_statistic_latex(s) ==
    IF ~s.show_r2 THEN <<>>
    ELSE <<Row("f_statistic",
               [m \in 1..Len(s.model_data) |->
                   f_statistic_cell_latex(s, s.model_data[m])])>>

generate_p_value_section_latex(s) ==
    LET sig_levels == sorted(s.sig_levels)
        n == Len(sig_levels)
    IN [i \in 1..n |->
           IF i < n
           THEN StarStr(n - (i - 1)) \o "p<" \o ToString(sig_levels[i])
           ELSE "*p<" \o ToString(sig_levels[n])]

generate_additional_notes_latex(s) ==
    [i \in 1..Len(s.custom_notes) |-> Row("custom_note", <<s.custom_notes[i]>>)]

generate_notes_latex(s) ==
    IF ~s.show_notes THEN <<>>
    ELSE <<Row("notes", <<s.notes_label>>
                        \o (IF s.notes_append THEN generate_p_value_section_latex(s)
                            ELSE <<>>))>>
         \o generate_additional_notes_latex(s)

generate_footer_latex(s, only_tabular) ==
    <<Row("rule", <<>>)>>
    \o (IF ~s.show_footer THEN <<>>
        ELSE generate_observations_latex(s)
          \o generate_r2_latex(s)
          \o generate_r2_adj_latex(s)
          \o (IF s.show_residual_std_err THEN generate_resid_std_err_latex(s) ELSE <<>>)
          \o (IF s.show_f_statistic THEN generate_f_statistic_latex(s) ELSE <<>>)
          \o <<Row("rule", <<>>)>>
          \o generate_notes_latex(s)
          \o <<Row("end_tabularx", <<>>)>>
          \o (IF ~only_tabular THEN <<Row("end_table", <<>>)>> ELSE <<>>))

render_latex(s, only_tabular) ==
    IF header_latex_raises(s, only_tabular) \/ footer_raises(s)
    THEN Raised(s)
    ELSE Rendered(s, generate_header_latex(s, only_tabular) \o generate_body_latex(s)
                  \o generate_footer_latex(s, only_tabular))

(***************************************************************************)
(* The state machine: an instance after construction, and one action per   *)
(* call a user makes on it.  ret is the outcome of the latest call.        *)
(***************************************************************************)
\* of the arguments, ret keeps only_tabular of render_latex, on which the
\* text returned depends
Called(op, args, r) ==
    /\ self' = r.self
    /\ ret' = [op |-> op,
               args |-> IF op = "render_latex" THEN ToString(args) ELSE "",
               raised |-> r.raised,
               out |-> r.out]

Constructed(models) ==
    /\ self = Construct(models)
    /\ ret = [op |-> "__init__", args |-> "", raised |-> FALSE, out |-> <<>>]

ModelLists(modelset, n) == UNION {[1..k -> modelset] : k \in 1..n}

\* the arguments the calls are made with
LevelValues == {2, 10, 20}
\* lists of floats, and lists with an entry that is not a float
LevelArgs ==
    SeqsUpTo(LevelValues, MaxLevels)
        \cup {Append(l, NonFloat) : l \in SeqsUpTo(LevelValues, 1)}

UnknownKey(nlevels) == [i \in 1..nlevels |-> 3]
OrderArgs(s) ==
    SeqsUpTo(Range(s.param_names) \cup {UnknownKey(s.nlevels)}
                 \cup (IF s.original_param_names = <<>> THEN {}
                       ELSE Range(s.original_param_names[1])),
             MaxOrder)

LabelArgs ==
    {NoColumns, StrColumns("All")}
        \cup {ListColumns(l) : l \in SeqsUpTo({"A", NonStr}, MaxModels)}
SeparatorArgs ==
    {<<>>} \cup {<<sp>> : sp \in SeqsUpTo((1..MaxModels) \cup {NonInt}, MaxModels)}

TitleArgs == {None, "Results", NonStr}

FooterFlags ==
    {"show_footer", "show_n", "show_r2", "show_adj_r2", "show_residual_std_err",
     "show_f_statistic"}

do_title == \E t \in TitleArgs : Called("title", t, title(self, t))

do_significance_levels ==
    \E levels \in LevelArgs :
        Called("significance_levels", levels, significance_levels(self, levels))

do_custom_columns ==
    \E labels \in LabelArgs, separators \in SeparatorArgs :
        Called("custom_columns", <<labels, separators>>,
               custom_columns(self, labels, separators))

do_covariate_order ==
    \E param_names \in OrderArgs(self) :
        Called("covariate_order", param_names, covariate_order(self, param_names))

do_reset_covariate_order ==
    Called("reset_covariate_order", "", reset_covariate_order(self))

do_reset_params == Called("reset_params", "", Returned(reset_params(self)))

\* the visibility flags have no setter: a user assigns the attribute
set_flag(s, flag, show) == Returned([s EXCEPT ![flag] = show])

do_set_flag ==
    \E flag \in FooterFlags, show \in BOOLEAN :
        Called("set_flag", <<flag, show>>, set_flag(self, flag, show))

HeaderFlags == {"show_header", "show_model_nums", "show_footer", "show_notes"}

do_set_header_flag ==
    \E flag \in HeaderFlags, show \in BOOLEAN :
        Called("set_flag", <<flag, show>>, set_flag(self, flag, show))

BodyFlags == {"show_precision", "show_sig", "confidence_intervals"}

do_set_body_flag ==
    \E flag \in BodyFlags, show \in BOOLEAN :
        Called("set_flag", <<flag, show>>, set_flag(self, flag, show))

DigitArgs == {NonInt, 0 - 1, 0, 2, 9, 10}

do_significant_digits ==
    \E digits \in DigitArgs :
        Called("significant_digits", digits, significant_digits(self, digits))

do_show_degrees_of_freedom ==
    \E show \in BOOLEAN :
        Called("show_degrees_of_freedom", show, show_degrees_of_freedom(self, show))

DofFlags == {"show_residual_std_err", "show_f_statistic"}

do_set_dof_flag ==
    \E flag \in DofFlags, show \in BOOLEAN :
        Called("set_flag", <<flag, show>>, set_flag(self, flag, show))

do_show_header == \E show \in BOOLEAN : Called("show_header", show, show_header(self, show))

NameArgs == {"OLS", NonStr}

do_model_name == \E name \in NameArgs : Called("model_name", name, model_name(self, name))

do_render_html == Called("render_html", "", render_html(self))

do_render_latex ==
    \E only_tabular \in BOOLEAN :
        Called("render_latex", only_tabular, render_latex(self, only_tabular))

(***************************************************************************)
(* Specifications.  Each starts from every instance a family of models     *)
(* constructs and takes the calls of one concern.                          *)
(***************************************************************************)

\* thresholds and stars: one model with two coefficients, every p-value of
\* 0.005, 0.02, 0.05, 0.5 and every F p-value of these or undefined
StarPValues == {1, 4, 10, 100}

StarModels ==
    {m \in ModelsOver(FlatKeys, StarPValues,
                      {InfoOf(fp, 4) : fp \in StarPValues \cup {NaN}}) :
        m.index = <<<<1>>, <<2>>>>}

InitStars == \E m \in StarModels : Constructed(<<m>>)

NextStars == do_significance_levels \/ do_reset_params

SpecStars == InitStars /\ [][NextStars]_vars

\* the whole life of an instance as far as thresholds and rendering go
SmallModels == ModelsOver(FlatKeys, {10}, {InfoOf(10, 4)})

Init == \E models \in ModelLists(SmallModels, MaxModels) : Constructed(models)

Next ==
    \/ do_significance_levels
    \/ do_reset_params
    \/ do_title
    \/ do_render_html
    \/ do_render_latex

Spec == Init /\ [][Next]_vars

\* the covariate order, over flat and over hierarchical keys
OrderModels ==
    ModelsOver(FlatKeys, {10}, {InfoOf(10, 4)})
        \cup ModelsOver(HierKeys, {10}, {InfoOf(10, 4)})

SameShape(models) == \A i \in DOMAIN models : Len(models[i].index[1]) = Len(models[1].index[1])

InitOrder ==
    \E models \in ModelLists(OrderModels, MaxModels) :
        SameShape(models) /\ Constructed(models)

NextOrder == do_covariate_order \/ do_reset_covariate_order

SpecOrder == InitOrder /\ [][NextOrder]_vars

\* the column labels, which depend on the models only by their number
ColumnModels == ModelsOver({<<1>>}, {10}, {InfoOf(10, 4), InfoOf(NaN, NaN)})

InitColumns == \E models \in ModelLists(ColumnModels, MaxModels) : Constructed(models)

NextColumns == do_custom_columns \/ do_reset_params \/ do_title

SpecColumns == InitColumns /\ [][NextColumns]_vars

\* the footer flags and the renderers, over models with and without their
\* summary scalars
RenderModels ==
    {m \in ModelsOver(FlatKeys, {10}, {InfoOf(10, 4), InfoOf(NaN, NaN)}) :
        m.index \in {<<<<1>>>>, <<<<1>>, <<2>>>>}}

InitRender == \E models \in ModelLists(RenderModels, MaxModels) : Constructed(models)

NextRender == do_set_flag \/ do_title \/ do_render_html \/ do_render_latex

SpecRender == InitRender /\ [][NextRender]_vars

\* header and footer sections in both encodings
InitHeader == \E models \in ModelLists(ColumnModels, MaxModels) : Constructed(models)

NextHeader ==
    \/ do_set_header_flag \/ do_custom_columns \/ do_show_header \/ do_model_name
    \/ do_render_html \/ do_render_latex

SpecHeader == InitHeader /\ [][NextHeader]_vars

\* the body: models that lack covariates of the union index
BodyModels ==
    {m \in OrderModels :
        m.index \in {<<<<1>>>>, <<<<2>>>>, <<<<1>>, <<2>>>>,
                     <<<<1, 1>>, <<1, 2>>>>, <<<<1, 2>>, <<2, 1>>>>}}

InitBody ==
    \E models \in ModelLists(BodyModels, MaxModels) :
        SameShape(models) /\ Constructed(models)

NextBody == do_set_body_flag \/ do_render_html \/ do_render_latex

SpecBody == InitBody /\ [][NextBody]_vars

\* the precision of the rounded numbers
InitDigits == \E models \in ModelLists(ColumnModels, MaxModels) : Constructed(models)

NextDigits == do_significant_digits \/ do_render_html \/ do_render_latex

SpecDigits == InitDigits /\ [][NextDigits]_vars

\* construction from models whose indexes come in any order
InitUnion ==
    \E models \in ModelLists(OrderModels, MaxModels) :
        SameShape(models) /\ Constructed(models)

NextUnion == do_title \/ do_reset_params \/ do_reset_covariate_order

SpecUnion == InitUnion /\ [][NextUnion]_vars

\* the footer of models that lack summary scalars
FooterModels == ModelsOver({<<1>>}, {10}, FooterInfos)

InitFooter == \E models \in ModelLists(FooterModels, MaxModels) : Constructed(models)

NextFooter ==
    do_show_degrees_of_freedom \/ do_set_dof_flag \/ do_render_html \/ do_render_latex

SpecFooter == InitFooter /\ [][NextFooter]_vars

\* reset_params after the setters
InitReset == \E models \in ModelLists(SmallModels, MaxModels) : Constructed(models)

NextReset ==
    \/ do_title \/ do_covariate_order \/ do_reset_covariate_order \/ do_reset_params
    \/ do_render_html

SpecReset == InitReset /\ [][NextReset]_vars

\* hierarchical keys, reordered
HierModels ==
    {m \in ModelsOver(HierKeys, {10}, {InfoOf(10, 4)}) :
        m.index \in {<<<<1, 1>>, <<1, 2>>, <<2, 1>>>>, <<<<1, 1>>, <<1, 2>>>>,
                     <<<<1, 2>>, <<2, 1>>>>}}

InitHier == \E models \in ModelLists(HierModels, MaxModels) : Constructed(models)

NextHier ==
    do_covariate_order \/ do_reset_covariate_order \/ do_render_html \/ do_render_latex

SpecHier == InitHier /\ [][NextHier]_vars


(***************************************************************************)
(* Properties of the thresholds and the stars.                             *)
(***************************************************************************)

\* the stars were computed by the latest call, from the thresholds it set
StarsJustComputed ==
    \/ ret.op = "__init__"
    \/ ret.op = "significance_levels" /\ ~ret.raised

\* the stars derived from the thresholds the instance holds now
DerivedIcons(md) == sig_icons_of(md.p_values, self.sig_levels)
DerivedIconFstat(md) == sig_icon_fstat_of(md.f_p_value, self.sig_levels)

\* C1: in every reachable state the stored coefficient stars and F-statistic
\* stars of every model are the ones derived from the current sig_levels.
C1_StarsInStep ==
    \A i \in DOMAIN self.model_data :
        /\ self.model_data[i].sig_icons = DerivedIcons(self.model_data[i])
        /\ self.model_data[i].sig_icon_fstat = DerivedIconFstat(self.model_data[i])

\* C2: a setter call that raises leaves the whole instance as it was.
C2_RaisedLeavesState == [][ret'.raised => self' = self]_vars

\* the number of thresholds at or above p: |T| minus the index of p's bin
StarsDue(p, levels) == Cardinality({i \in 1..Len(levels) : p <= levels[i]})

\* C6: a coefficient's star count is |T| minus the index of the bin of its
\* p-value: the number of thresholds at or above p. So a smaller p never has
\* fewer stars, a p above the largest threshold has none, a p at or below the
\* smallest has |T|; with thresholds [0.1, 0.05, 0.01], p = 0.02 has 2 stars,
\* p = 0.5 none and p = 0.005 has 3.
C6_StarCount ==
    StarsJustComputed =>
        \A i \in DOMAIN self.model_data :
            LET md == self.model_data[i]
                T == self.sig_levels
                n == Len(T)
            IN \A k \in DOMAIN md.p_values :
                LET p == md.p_values[k]
                IN /\ md.sig_icons[k] = StarsDue(p, T)
                   /\ md.sig_icons[k] =
                          n - Cardinality({j \in 1..n : T[j] < p})
                   /\ \A k2 \in DOMAIN md.p_values :
                          md.p_values[k2] <= p => md.sig_icons[k2] >= md.sig_icons[k]
                   /\ (\A j \in 1..n : p > T[j]) => md.sig_icons[k] = 0
                   /\ (\A j \in 1..n : p <= T[j]) => md.sig_icons[k] = n
                   /\ T = <<20, 10, 2>> =>
                          /\ p = 4 => md.sig_icons[k] = 2
                          /\ p = 100 => md.sig_icons[k] = 0
                          /\ p = 1 => md.sig_icons[k] = 3

\* thresholds [0.1, 0.05, 0.01] were set and the stars of the p-values
\* 0.02 (two stars) and 0.05 (a threshold itself, two stars) computed
C6_Witness ==
    /\ ret.op = "significance_levels" /\ ~ret.raised
    /\ self.sig_levels = <<20, 10, 2>>
    /\ \E i \in DOMAIN self.model_data :
           LET md == self.model_data[i]
           IN /\ md.p_values[<<1>>] = 4 /\ md.sig_icons[<<1>>] = 2
              /\ md.p_values[<<2>>] = 10 /\ md.sig_icons[<<2>>] = 2

\* C7: the F-statistic has the stars a coefficient with the same p-value
\* has, and none when its p-value is undefined.
C7_FstatStarsAsCoefficient ==
    StarsJustComputed =>
        \A i \in DOMAIN self.model_data :
            LET md == self.model_data[i]
            IN IF isnan(md.f_p_value)
               THEN md.sig_icon_fstat = 0
               ELSE md.sig_icon_fstat =
                        cut(md.f_p_value, sig_bins(self.sig_levels),
                            sig_labels(self.sig_levels))

(***************************************************************************)
(* Properties of rendering.                                                *)
(***************************************************************************)
IsRender(r) == r.op \in {"render_html", "render_latex"}

HasRow(out, kind) == \E i \in 1..Len(out) : out[i].row = kind

\* C3: a render call on an instance whose setter calls all returned never
\* raises.
C3_RenderNeverRaises == IsRender(ret) => ~ret.raised

\* C8: a render call changes nothing of the instance, and a render that
\* follows a render of the same encoding returns the same text.
C8_RenderReadOnly ==
    [][/\ IsRender(ret') => self' = self
       /\ (IsRender(ret) /\ ret'.op = ret.op /\ ret'.args = ret.args) =>
              (ret'.out = ret.out /\ ret'.raised = ret.raised)]_vars

\* a render returned its rows on an instance whose flags and title were set
C8_Witness ==
    /\ IsRender(ret) /\ ~ret.raised /\ Len(ret.out) > 3
    /\ ~self.show_r2
    /\ self.show_residual_std_err
    /\ self.title_text = "Results"

\* C10: with the footer shown, each statistics row is in the text iff its own
\* flag is set, in both encodings.
C10_FooterRowsGated ==
    (IsRender(ret) /\ ~ret.raised /\ self.show_footer) =>
        /\ HasRow(ret.out, "r2") <=> self.show_r2
        /\ HasRow(ret.out, "r2_adj") <=> self.show_adj_r2
        /\ HasRow(ret.out, "resid_std_err") <=> self.show_residual_std_err
        /\ HasRow(ret.out, "f_statistic") <=> self.show_f_statistic

(***************************************************************************)
(* Properties of the covariate order.                                      *)
(***************************************************************************)

\* the union covariate index of construction; model_data is never assigned
UnionIndex == sorted_set(UNION {Range(self.model_data[i].param_names) :
                                    i \in DOMAIN self.model_data})

\* C4: after covariate_order calls, reset_covariate_order brings back the
\* union index of construction, and the first-column table is the one of
\* construction.
C4_ResetRestoresOriginal ==
    (ret.op = "reset_covariate_order" /\ self.original_param_names # <<>>) =>
        /\ self.param_names = UnionIndex
        /\ self.first_table_col = first_table_col_of(UnionIndex, self.nlevels)

\* C5: the covariate order has no key twice and only keys of the union
\* index, and a covariate_order call naming a key outside the current order
\* raises and changes nothing.
C5_OrderIsSubsetOfUnion ==
    /\ NoDup(self.param_names)
    /\ Range(self.param_names) \subseteq Range(UnionIndex)
    /\ \A param_names \in OrderArgs(self) :
           ~(Range(param_names) \subseteq Range(self.param_names)) =>
               covariate_order(self, param_names) = Raised(self)

(***************************************************************************)
(* Properties of the column labels.                                        *)
(***************************************************************************)
BadSeparators(labels, seps) ==
    \/ SumSeq(seps) # self.num_models
    \/ labels.kind # "list"
    \/ Len(labels.list) # Len(seps)
    \/ \E i \in 1..Len(seps) : seps[i] = NonInt

\* C9: custom_columns with separators that do not sum to the number of
\* models, differ in length from the labels or hold a non-integer raises,
\* and column_labels and column_separators stay as they were.
C9_BadColumnsRejected ==
    /\ \A labels \in LabelArgs, separators \in SeparatorArgs \ {<<>>} :
           BadSeparators(labels, separators[1]) =>
               LET r == custom_columns(self, labels, separators)
               IN /\ r.raised
                  /\ r.self.column_labels = self.column_labels
                  /\ r.self.column_separators = self.column_separators
    /\ (ret.op = "custom_columns" /\ ~ret.raised /\ self.column_separators # <<>>) =>
           SumSeq(self.column_separators[1]) = self.num_models

\* labels and separators were stored, and a later custom_columns call raised
C9_Witness ==
    /\ ret.op = "custom_columns" /\ ret.raised
    /\ self.column_labels.kind = "list"
    /\ self.column_separators = <<<<1, 1>>>>

(***************************************************************************)
(* Properties of single rows.                                              *)
(***************************************************************************)

\* the call ret is the outcome of, made on the instance s
RenderOf(s, r) ==
    IF r.op = "render_html" THEN render_html(s) ELSE render_latex(s, r.args = "TRUE")

WithoutRows(out, kind) == SelectSeq(out, LAMBDA row : row.row # kind)

RowsOf(out, kind) == SelectSeq(out, LAMBDA row : row.row = kind)

\* C11: the text rendered with show_n false is the text rendered with show_n
\* true and every other option the same, less the observations row (one row,
\* when the footer is shown), in both encodings.
C11_ShowNRemovesObservations ==
    (IsRender(ret) /\ ~ret.raised /\ ~self.show_n) =>
        LET shown == RenderOf([self EXCEPT !.show_n = TRUE], ret).out
        IN /\ ret.out = WithoutRows(shown, "observations")
           /\ Len(RowsOf(shown, "observations")) = (IF self.show_footer THEN 1 ELSE 0)
           /\ self.show_footer => Len(ret.out) = Len(shown) - 1

\* show_n was set to false and a render returned the footer without the
\* observations row, the other statistics rows in place
C11_Witness ==
    /\ ret.op = "render_latex" /\ ~ret.raised
    /\ ~self.show_n /\ self.show_footer /\ self.show_r2 /\ self.show_f_statistic
    /\ ~HasRow(ret.out, "observations")
    /\ HasRow(ret.out, "r2") /\ HasRow(ret.out, "f_statistic")

(***************************************************************************)
(* The two encodings side by side.                                         *)
(***************************************************************************)

HeaderSections == {"title", "model_name", "column_labels", "model_nums"}

StatisticsSections == {"observations", "r2", "r2_adj", "resid_std_err", "f_statistic"}

NotesSections == {"notes", "custom_note"}

\* C12: a section is in the LaTeX text exactly when it is in the HTML text,
\* with either only_tabular; with show_header false neither text has a header
\* row, with show_footer false neither has a statistics row or the notes.
C12_EncodingsSymmetric ==
    \A only_tabular \in BOOLEAN :
        LET html == render_html(self)
            latex == render_latex(self, only_tabular)
        IN (~html.raised /\ ~latex.raised) =>
            /\ \A kind \in HeaderSections \cup StatisticsSections \cup NotesSections :
                   HasRow(html.out, kind) <=> HasRow(latex.out, kind)
            /\ ~self.show_header =>
                   \A kind \in HeaderSections :
                       ~HasRow(html.out, kind) /\ ~HasRow(latex.out, kind)
            /\ ~self.show_footer =>
                   \A kind \in StatisticsSections \cup NotesSections :
                       ~HasRow(html.out, kind) /\ ~HasRow(latex.out, kind)

(***************************************************************************)
(* The body.                                                               *)
(***************************************************************************)

\* the forms of a filled estimate cell of model m: the rounded value, with
\* the stars in either encoding when they are shown
FilledMain(m, param_name) ==
    LET value == np_round("value" \o ToString(m) \o ToString(param_name), self.sig_digits)
        icon == IconStr(self.model_data[m].sig_icons[param_name])
    IN IF self.show_sig
       THEN {value \o "<sup>" \o icon \o "</sup>", value \o "$^{" \o icon \o "}$"}
       ELSE {value}

\* C13: in the estimate row and the precision row of every covariate, in both
\* encodings, the cells after the name cells are one per model in model
\* order: empty for a model without the covariate, filled with that model's
\* number for a model that has it.
C13_AbsentCovariateEmptyCell ==
    (IsRender(ret) /\ ~ret.raised) =>
        LET mains == RowsOf(ret.out, "param_main")
            precisions == RowsOf(ret.out, "param_precision")
            name == self.nlevels
        IN /\ Len(mains) = Len(self.param_names)
           /\ Len(precisions) = (IF self.show_precision THEN Len(self.param_names) ELSE 0)
           /\ \A j \in 1..Len(mains) :
                  /\ Len(mains[j].cells) = name + self.num_models
                  /\ \A m \in 1..self.num_models :
                         IF self.param_names[j] \in Range(self.model_data[m].param_names)
                         THEN mains[j].cells[name + m] \in FilledMain(m, self.param_names[j])
                         ELSE mains[j].cells[name + m] = ""
           /\ \A j \in 1..Len(precisions) :
                  /\ Len(precisions[j].cells) = name + self.num_models
                  /\ \A m \in 1..self.num_models :
                         IF self.param_names[j] \in Range(self.model_data[m].param_names)
                         THEN precisions[j].cells[name + m]
                                  = precision_cell(self, m, self.param_names[j])
                         ELSE precisions[j].cells[name + m] = ""

\* two models, the second covariate of the union absent from the first model
\* and present in the second, rendered in LaTeX with the precision rows
C13_Witness ==
    /\ ret.op = "render_latex" /\ ~ret.raised
    /\ self.num_models = 2 /\ self.show_precision /\ Len(self.param_names) = 2
    /\ self.param_names[2] \notin Range(self.model_data[1].param_names)
    /\ self.param_names[2] \in Range(self.model_data[2].param_names)
    /\ LET precisions == RowsOf(ret.out, "param_precision")
       IN /\ Len(precisions) = 2
          /\ precisions[2].cells[self.nlevels + 1] = ""
          /\ precisions[2].cells[self.nlevels + 2] # ""

\* C14: significant_digits raises and leaves sig_digits as it was for a
\* non-integer, a negative integer and an integer of 10 or more; any other
\* argument is stored, and the estimates of later renders are rounded to it.
C14_DigitsValidated ==
    /\ \A digits \in DigitArgs :
           LET r == significant_digits(self, digits)
           IN IF digits = NonInt \/ digits < 0 \/ digits >= 10
              THEN r.raised /\ r.self = self
              ELSE ~r.raised /\ r.self = [self EXCEPT !.sig_digits = digits]
    /\ self.sig_digits \in 0..9
    /\ (IsRender(ret) /\ ~ret.raised) =>
           \A j \in 1..Len(self.param_names), m \in 1..self.num_models :
               self.param_names[j] \in Range(self.model_data[m].param_names) =>
                   RowsOf(ret.out, "param_main")[j].cells[self.nlevels + m]
                       \in FilledMain(m, self.param_names[j])

(***************************************************************************)
(* The union index.                                                        *)
(***************************************************************************)

\* C15: param_names, as construction leaves it, holds the keys of all the
\* models and no other, each once, ascending in the order of Python's tuples.
C15_UnionIndexSorted ==
    /\ Range(self.param_names)
           = UNION {Range(self.model_data[m].param_names) : m \in 1..self.num_models}
    /\ \A i, j \in 1..Len(self.param_names) :
           i < j => KeyLess(self.param_names[i], self.param_names[j])

\* two models with hierarchical keys, neither index sorted nor holding all the
\* keys of the other
C15_Witness ==
    /\ ret.op = "__init__" /\ self.num_models = 2 /\ self.nlevels = 2
    /\ self.model_data[1].param_names = <<<<2, 1>>, <<1, 1>>>>
    /\ self.model_data[2].param_names = <<<<1, 2>>, <<1, 1>>>>
    /\ self.param_names = <<<<1, 1>>, <<1, 2>>, <<2, 1>>>>

(***************************************************************************)
(* The footer cells.                                                       *)
(***************************************************************************)

\* the F-statistic cell of a model whose F-statistic is defined, in the
\* encoding of the call ret is the outcome of, with the given annotation
FCell(md, annotation) ==
    np_round(ToString(md.f_statistic), self.sig_digits)
    \o (IF ret.op = "render_html"
        THEN "<sup>" \o StarStr(md.sig_icon_fstat) \o "</sup>"
        ELSE "$^{" \o StarStr(md.sig_icon_fstat) \o "}$")
    \o annotation

BothDof(md) ==
    "(df = " \o ToString(md.degree_freedom) \o "; "
    \o ToString(md.degree_freedom_resid) \o ")"

\* a render with show_dof that wrote the F-statistic row
FRowWithDof ==
    /\ IsRender(ret) /\ ~ret.raised /\ self.show_dof
    /\ HasRow(ret.out, "f_statistic")

\* C16 as stated: with show_dof and a defined F-statistic, the cell has no
\* annotation when a degree of freedom is undefined and the annotation with
\* both when both are defined, in both encodings.
C16_DofSuppressedWhenEitherUndefined ==
    FRowWithDof =>
        \A m \in 1..self.num_models :
            LET md == self.model_data[m]
                cell == RowsOf(ret.out, "f_statistic")[1].cells[m]
            IN ~isnan(md.f_statistic) =>
                   cell = FCell(md, IF isnan(md.degree_freedom)
                                       \/ isnan(md.degree_freedom_resid)
                                    THEN "" ELSE BothDof(md))

\* C16, amended: the cell has no annotation only when both degrees of freedom
\* are undefined; with one undefined the annotation is written with that side
\* empty, with both defined it has both; the same in both encodings.
C16_DofSuppressedWhenBothUndefined ==
    FRowWithDof =>
        \A m \in 1..self.num_models :
            LET md == self.model_data[m]
                cell == RowsOf(ret.out, "f_statistic")[1].cells[m]
            IN ~isnan(md.f_statistic) =>
                   cell = FCell(md,
                       IF isnan(md.degree_freedom) /\ isnan(md.degree_freedom_resid)
                       THEN ""
                       ELSE IF isnan(md.degree_freedom)
                       THEN "(df = ; " \o ToString(md.degree_freedom_resid) \o ")"
                       ELSE IF isnan(md.degree_freedom_resid)
                       THEN "(df = " \o ToString(md.degree_freedom) \o "; )"
                       ELSE BothDof(md))

\* a LaTeX render with show_dof of two models with an F-statistic: one degree
\* of freedom undefined in the first, both undefined in the second
C16_Witness ==
    /\ FRowWithDof /\ ret.op = "render_latex" /\ self.num_models = 2
    /\ ~isnan(self.model_data[1].f_statistic) /\ ~isnan(self.model_data[2].f_statistic)
    /\ isnan(self.model_data[1].degree_freedom)
    /\ ~isnan(self.model_data[1].degree_freedom_resid)
    /\ isnan(self.model_data[2].degree_freedom)
    /\ isnan(self.model_data[2].degree_freedom_resid)

Blank == {"", " "}

\* the residual standard error cell of a model whose scale is defined, written
\* from defined values alone
ResidCell(md) ==
    np_round(ToString(md.resid_std_err), self.sig_digits)
    \o (IF self.show_dof /\ ~isnan(md.degree_freedom_resid)
        THEN "(df = " \o ToString(md.degree_freedom_resid) \o ")"
        ELSE "")

\* the annotations of an F-statistic cell written from defined values alone
DofTexts(md) ==
    IF ~self.show_dof THEN {""}
    ELSE {""} \cup {"(df = " \o a \o "; " \o b \o ")" :
                       a \in {""} \cup {ToString(x) : x \in {md.degree_freedom} \ {NaN}},
                       b \in {""} \cup {ToString(x) : x \in {md.degree_freedom_resid} \ {NaN}}}

\* the cell of model m in the footer row of the given kind, when the scalar
\* of the row is defined
DefinedCells(kind, md) ==
    CASE kind = "observations" -> {ToString(md.n_obs)}
      [] kind = "r2" -> {np_round(ToString(md.r2), self.sig_digits)}
      [] kind = "r2_adj" -> {np_round(ToString(md.r2_adj), self.sig_digits)}
      [] kind = "resid_std_err" -> {ResidCell(md)}
      [] kind = "f_statistic" -> {FCell(md, annotation) : annotation \in DofTexts(md)}

RowScalar(kind, md) ==
    CASE kind = "observations" -> md.n_obs
      [] kind = "r2" -> md.r2
      [] kind = "r2_adj" -> md.r2_adj
      [] kind = "resid_std_err" -> md.resid_std_err
      [] kind = "f_statistic" -> md.f_statistic

\* what info.get(key, np.nan) is to give for each scalar of model m
StoredAsGiven(m) ==
    LET info == self.models[m].info
        md == self.model_data[m]
    IN /\ md.r2 = info.rsquared /\ md.r2_adj = info.rsquared_adj
       /\ md.f_statistic = info.fvalue /\ md.f_p_value = info.f_pvalue
       /\ md.degree_freedom = info.df_model /\ md.degree_freedom_resid = info.df_resid
       /\ isnan(md.resid_std_err) <=> isnan(info.scale)
       /\ md.n_obs = (IF ~isnan(info.n_obs) THEN info.n_obs
                      ELSE IF isnan(info.df_model) \/ isnan(info.df_resid) THEN NaN
                      ELSE info.df_model + info.df_resid + 1)

\* C17: a scalar the info lacks is stored as NaN, n_obs when not supplied is
\* df_model + df_resid + 1 or NaN if one of them is NaN; no render raises, and
\* in every footer row of a render the cell of a model whose scalar is NaN is
\* blank and every other cell is written from defined values alone.
C17_MissingScalarsBlank ==
    /\ \A m \in 1..self.num_models : StoredAsGiven(m)
    /\ IsRender(ret) =>
           /\ ~ret.raised
           /\ \A kind \in StatisticsSections :
                  \A i \in 1..Len(RowsOf(ret.out, kind)), m \in 1..self.num_models :
                      LET md == self.model_data[m]
                          cell == RowsOf(ret.out, kind)[i].cells[m]
                      IN IF isnan(RowScalar(kind, md))
                         THEN cell \in Blank
                         ELSE cell \in DefinedCells(kind, md)

\* a render with every statistics row, of two models: the first lacks R2, the
\* second both degrees of freedom and with them n_obs
C17_Witness ==
    /\ ret.op = "render_html" /\ ~ret.raised /\ self.num_models = 2
    /\ \A kind \in StatisticsSections : HasRow(ret.out, kind)
    /\ isnan(self.model_data[1].r2) /\ ~isnan(self.model_data[1].n_obs)
    /\ isnan(self.model_data[2].n_obs) /\ ~isnan(self.model_data[2].r2)
    /\ RowsOf(ret.out, "r2")[1].cells[1] \in Blank
    /\ RowsOf(ret.out, "observations")[1].cells[2] \in Blank

(***************************************************************************)
(* The setters of the header.                                              *)
(***************************************************************************)

\* C18: show_header with a bool and model_name with a string return and
\* record the option: renders after show_header(False) have no header row,
\* renders after model_name(s) have the banner s.
C18_HeaderSettersRecord ==
    /\ ret.op \in {"show_header", "model_name"} => ~ret.raised
    /\ \A show \in BOOLEAN :
           LET r == show_header(self, show)
           IN /\ ~r.raised
              /\ r.self.show_header = show
              /\ ~show => \A kind \in HeaderSections :
                              ~HasRow(render_html(r.self).out, kind)
    /\ \A name \in NameArgs \ {NonStr} :
           LET r == model_name(self, name)
           IN /\ ~r.raised
              /\ r.self.model_name = name
              /\ self.show_header =>
                     \E i \in 1..Len(render_html(r.self).out) :
                         /\ render_html(r.self).out[i].row = "model_name"
                         /\ name \in Range(render_html(r.self).out[i].cells)

(***************************************************************************)
(* reset_params.                                                           *)
(***************************************************************************)

\* C19: after reset_params every option has its default, both renderers
\* return what they return for an instance newly constructed over the same
\* models, and reset_covariate_order brings back the order of construction.
C19_ResetIsFreshStart ==
    ret.op = "reset_params" =>
        LET fresh == Construct(self.models)
        IN /\ \A option \in DOMAIN DefaultParams : self[option] = DefaultParams[option]
           /\ render_html(self) = Rendered(self, render_html(fresh).out)
           /\ \A only_tabular \in BOOLEAN :
                  render_latex(self, only_tabular)
                      = Rendered(self, render_latex(fresh, only_tabular).out)
           /\ reset_covariate_order(self).self.param_names = fresh.param_names

(***************************************************************************)
(* The group cells of hierarchical keys.                                   *)
(***************************************************************************)

\* C20: in the estimate rows of a render, in the order they are rendered, the
\* cell of a group level is empty when the key has at that level the value of
\* the key of the row above, and is the value otherwise; the first row has
\* its values.
C20_GroupCellsFollowRenderedOrder ==
    (IsRender(ret) /\ ~ret.raised /\ self.nlevels > 1) =>
        LET mains == RowsOf(ret.out, "param_main")
        IN \A j \in 1..Len(mains), i \in 1..(self.nlevels - 1) :
               mains[j].cells[i]
                   = (IF j > 1 /\ self.param_names[j][i] = self.param_names[j - 1][i]
                      THEN ""
                      ELSE SegName(self.param_names[j][i]))

====
